---------------------------- MODULE Spec2Model ----------------------------
(***************************************************************************)
(* Estofados Premium Outlet API (src/backend/server.py).                   *)
(*                                                                         *)
(* The model follows the request handlers of the FastAPI application.      *)
(* Every `await` on the database is one atomic step; the in-memory code    *)
(* between two awaits runs without suspension (single asyncio event loop)  *)
(* and is folded into the step that ends with the next await.  Several     *)
(* requests are in flight at once, one per element of Procs.               *)
(*                                                                         *)
(* Collections are sequences in insertion order: find_one returns the      *)
(* first matching document, replace_one replaces the first matching        *)
(* document.  No collection has a unique index (none is created in the     *)
(* source).  Prices are integers (cents); time is counted in minutes.      *)
(* The created_at / updated_at stamps of the documents are left out: only  *)
(* get_reviews orders by one, and it changes nothing.                      *)
(***************************************************************************)
EXTENDS Integers, Sequences, FiniteSets, TLC

(***************************************************************************)
(* Bounds of the model.                                                    *)
(***************************************************************************)
NProcs == 2        \* requests in flight at the same time
MaxReqs == 2       \* requests started in one behaviour
MaxTicks == 2      \* clock advances in one behaviour
MaxIssued == 2     \* tokens in the hands of clients
MaxStarts == 2     \* process starts in one behaviour, the first one included

(***************************************************************************)
(* Program constants.                                                      *)
(***************************************************************************)
ACCESS_TOKEN_EXPIRE_MINUTES == 30 * 24 * 60
DEFAULT_EXPIRE_MINUTES == 15

Procs == 1..NProcs

None == 0          \* Python None for ids / a missing "sub" claim

NoCart == [id |-> None, user_id |-> None, items |-> <<>>, total |-> 0]
NoCategory == [id |-> None, name |-> ""]
NoReview == [id |-> None, user_name |-> "", rating |-> 0]
NoProduct == [id |-> None, name |-> "", image_url |-> "", price |-> 0,
              category_id |-> None, category_name |-> ""]
NoHash == [salt |-> None, digest |-> <<None, "">>]
NoUser == [id |-> None, email |-> "", password |-> NoHash, is_admin |-> FALSE]
NoToken == [sub |-> None, exp |-> 0, sig |-> FALSE]

VARIABLES
    users,      \* db.users: sequence of user documents
    carts,      \* db.carts: sequence of cart documents
    products,   \* db.products: sequence of product documents
    categories, \* db.categories: sequence of category documents
    reviews,    \* db.reviews: sequence of review documents
    now,        \* datetime.now(timezone.utc), in minutes
    issued,     \* tokens handed out so far, each with the ttl it was asked with
    nextId,     \* number of uuid4() values drawn so far
    pc,         \* per request: the await it is suspended at
    req,        \* per request: the inputs of the request
    cur,        \* per request: current_user as resolved by get_current_user
    loc,        \* per request: the handler's local variables
    resp,       \* per request: the response
    nreq,       \* requests started so far
    nticks      \* clock advances so far

vars == <<users, carts, products, categories, reviews, now, issued, nextId, pc, req,
          cur, loc, resp, nreq, nticks>>

db == <<users, carts, products, categories, reviews>>

(***************************************************************************)
(* Pure helpers.                                                           *)
(***************************************************************************)
\* A sum that forgets the quantities.
RECURSIVE SumPrices(_)
SumPrices(items) ==
    IF items = <<>> THEN 0 ELSE Head(items).price + SumPrices(Tail(items))

RECURSIVE SumItems(_)
\* sum(item.price * item.quantity for item in cart.items)
SumItems(items) ==
    IF items = <<>> THEN 0
    ELSE Head(items).price * Head(items).quantity + SumItems(Tail(items))

\* Indexes of the documents of a collection that match a filter field.
Matches(coll, field, v) == {i \in 1..Len(coll) : coll[i][field] = v}

Min(S) == CHOOSE x \in S : \A y \in S : x <= y

\* collection.find_one({field: v}): the first match in natural order, or nothing.
FindOne(coll, field, v, nothing) ==
    IF Matches(coll, field, v) = {} THEN nothing
    ELSE coll[Min(Matches(coll, field, v))]

\* collection.insert_one(doc)
InsertOne(coll, doc) == Append(coll, doc)

\* collection.replace_one({field: v}, doc, upsert): replaces the first match;
\* without a match it inserts when upsert is set and does nothing otherwise.
ReplaceOne(coll, field, v, doc, upsert) ==
    IF Matches(coll, field, v) = {}
    THEN IF upsert THEN Append(coll, doc) ELSE coll
    ELSE [coll EXCEPT ![Min(Matches(coll, field, v))] = doc]

\* str(uuid.uuid4()): a value never drawn before.
FreshId(n) == n + 1

(***************************************************************************)
(* Credentials.                                                            *)
(***************************************************************************)
\* timedelta(minutes = m), and the default argument expires_delta = None.
Delta(m) == [some |-> TRUE, minutes |-> m]
NoDelta == [some |-> FALSE, minutes |-> 0]

\* Truth value of `if expires_delta:` -- None and timedelta(0) are both falsy.
Truthy(delta) == delta.some /\ delta.minutes # 0

\* create_access_token({"sub": sub}, expires_delta) called at time t; the
\* token is signed with SECRET_KEY.
CreateAccessToken(sub, delta, t) ==
    [sub |-> sub,
     exp |-> IF Truthy(delta) THEN t + delta.minutes
                              ELSE t + DEFAULT_EXPIRE_MINUTES,
     sig |-> TRUE]

\* A decode that does not verify the signature.
JwtDecodesUnverified(tok, t, atEq) == tok.exp > t \/ (tok.exp = t /\ ~atEq)

\* jwt.decode(token, SECRET_KEY, algorithms=[ALGORITHM]) at time t: raises
\* PyJWTError on a bad signature or an expired "exp".  Whether exp = t is
\* already expired depends on the PyJWT release (atEq).
JwtDecodes(tok, t, atEq) ==
    tok.sig /\ (tok.exp > t \/ (tok.exp = t /\ ~atEq))

\* pwd_context.hash(password) with a fresh salt, and pwd_context.verify.
GetPasswordHash(password, salt) == [salt |-> salt, digest |-> <<salt, password>>]
VerifyPassword(plain, hashed) == hashed.digest = <<hashed.salt, plain>>

(***************************************************************************)
(* Responses and per-request bookkeeping.                                  *)
(***************************************************************************)
NoReq == [op |-> "none", tok |-> NoToken, product_id |-> None, quantity |-> 0,
          has_quantity |-> FALSE, category_id |-> None, name |-> "", price |-> 0,
          image_url |-> "", rating |-> 0,
          email |-> "", password |-> "", is_admin |-> FALSE]
NoLoc == [product |-> NoProduct, cart |-> NoCart, found |-> FALSE, user |-> NoUser]

\* The fields of the pydantic model User.
UserFields == {"id", "email", "is_admin"}

\* A user payload that is the stored document itself.
UserModelWithPassword(doc) == doc

\* User(**user): the model keeps its own fields and ignores the others
\* (password) of the document it is built from.
UserModel(doc) == [f \in UserFields |-> doc[f]]

NoPayload == UserModel(NoUser)

NoResp == [status |-> 0, detail |-> "", cart |-> NoCart, access_token |-> NoToken,
           user |-> NoPayload]

HTTPException(status, detail) == [NoResp EXCEPT !.status = status, !.detail = detail]
Ok(detail, cart) == [NoResp EXCEPT !.status = 200, !.detail = detail, !.cart = cart]

\* raise HTTPException(...): the request ends with that response.
Raise(p, status, detail) ==
    /\ resp' = [resp EXCEPT ![p] = HTTPException(status, detail)]
    /\ pc' = [pc EXCEPT ![p] = "done"]

\* return ...: the request ends with a 200 response.
Return(p, detail, cart) ==
    /\ resp' = [resp EXCEPT ![p] = Ok(detail, cart)]
    /\ pc' = [pc EXCEPT ![p] = "done"]

\* return {"access_token": ..., "token_type": "bearer", "user": ...}
ReturnToken(p, tok, user) ==
    /\ resp' = [resp EXCEPT ![p] = [Ok("", NoCart) EXCEPT !.access_token = tok,
                                                         !.user = user]]
    /\ pc' = [pc EXCEPT ![p] = "done"]

\* The first await of the handler of each route, after the dependency
\* get_current_user has resolved.
Entry(op) ==
    CASE op = "get_cart" -> "get_find"
      [] op = "add" -> "add_find_product"
      [] op = "remove" -> "remove_find"
      [] op = "create_category" -> "category_insert"
      [] op = "create_product" -> "product_find"
      [] op = "create_review" -> "review_insert"
      [] OTHER -> "done"

(***************************************************************************)
(* A client sends a request.                                               *)
(***************************************************************************)
\* register and login take no token; every other modelled route depends
\* on get_current_user.
FirstAwait(op) ==
    CASE op = "register" -> "reg_find"
      [] op = "login" -> "login_find"
      [] OTHER -> "auth"

\* Worker slots are interchangeable: a new request takes the lowest free one.
Start(p, r) ==
    /\ pc[p] = "idle"
    /\ \A q \in Procs : pc[q] = "idle" => p <= q
    /\ nreq < MaxReqs
    /\ nreq' = nreq + 1
    /\ req' = [req EXCEPT ![p] = r]
    /\ pc' = [pc EXCEPT ![p] = FirstAwait(r.op)]
    /\ UNCHANGED <<users, carts, products, categories, reviews, now, issued, nextId, cur, loc, resp, nticks>>

\* A request that is not counted against MaxReqs (it writes no collection).
StartReadOnly(p, r) ==
    /\ pc[p] = "idle"
    /\ \A q \in Procs : pc[q] = "idle" => p <= q
    /\ req' = [req EXCEPT ![p] = r]
    /\ pc' = [pc EXCEPT ![p] = FirstAwait(r.op)]
    /\ UNCHANGED <<users, carts, products, categories, reviews, now, issued, nextId, cur, loc,
                   resp, nreq, nticks>>

\* The response has been delivered; the worker slot is free again.
Finish(p) ==
    /\ pc[p] = "done"
    /\ pc' = [pc EXCEPT ![p] = "idle"]
    /\ req' = [req EXCEPT ![p] = NoReq]
    /\ cur' = [cur EXCEPT ![p] = NoUser]
    /\ loc' = [loc EXCEPT ![p] = NoLoc]
    /\ resp' = [resp EXCEPT ![p] = NoResp]
    /\ UNCHANGED <<users, carts, products, categories, reviews, now, issued, nextId, nreq, nticks>>

(***************************************************************************)
(* get_current_user (the dependency of every protected route).             *)
(***************************************************************************)
GetCurrentUser(p) ==
    /\ pc[p] = "auth"
    /\ \E atEq \in BOOLEAN :
        LET tok == req[p].tok
            user == FindOne(users, "id", tok.sub, NoUser)
        IN  IF ~JwtDecodes(tok, now, atEq) \/ tok.sub = None
            THEN /\ Raise(p, 401, "Invalid authentication credentials")
                 /\ UNCHANGED cur
            ELSE IF user = NoUser
            THEN /\ Raise(p, 401, "User not found")
                 /\ UNCHANGED cur
            ELSE /\ cur' = [cur EXCEPT ![p] = UserModel(user)]
                 /\ pc' = [pc EXCEPT ![p] = Entry(req[p].op)]
                 /\ UNCHANGED resp
    /\ UNCHANGED <<users, carts, products, categories, reviews, now, issued, nextId, req, loc, nreq, nticks>>

(***************************************************************************)
(* Cart routes.                                                            *)
(***************************************************************************)
\* Cart(user_id = u) with a fresh id, no items and total 0.0.
NewCart(id, u) == [id |-> id, user_id |-> u, items |-> <<>>, total |-> 0]

\* item_data.get("quantity", 1)
GetQuantity(item_data) ==
    IF item_data.has_quantity THEN item_data.quantity ELSE 1

\* CartItem(...) built from the product document and the requested quantity.
NewCartItem(product, quantity) ==
    [product_id |-> product.id, product_name |-> product.name,
     product_image |-> product.image_url, price |-> product.price,
     quantity |-> quantity]

\* Index of the first item of the cart with that product_id, 0 when absent.
ExistingItem(items, pid) ==
    IF Matches(items, "product_id", pid) = {} THEN 0
    ELSE Min(Matches(items, "product_id", pid))

\* A merge that overwrites the quantity of an existing line.
MergeItemOverwrite(items, item) ==
    IF ExistingItem(items, item.product_id) # 0
    THEN [items EXCEPT ![ExistingItem(items, item.product_id)].quantity = item.quantity]
    ELSE Append(items, item)

\* A merge that never looks for an existing line.
MergeItemAppend(items, item) == Append(items, item)

\* A merge that also refreshes the product fields of an existing line.
MergeItemRefresh(items, item) ==
    IF ExistingItem(items, item.product_id) # 0
    THEN [items EXCEPT ![ExistingItem(items, item.product_id)] =
                           [item EXCEPT !.quantity = @ + items[ExistingItem(items, item.product_id)].quantity]]
    ELSE Append(items, item)

\* The items of add_to_cart after the merge.
MergeItem(items, item) ==
    IF ExistingItem(items, item.product_id) # 0
    THEN [items EXCEPT ![ExistingItem(items, item.product_id)].quantity =
                           @ + item.quantity]
    ELSE Append(items, item)

\* A cart whose total is left as it was read.
WithOldTotal(cart) == cart

\* cart.total = sum(item.price * item.quantity for item in cart.items)
WithTotal(cart) == [cart EXCEPT !.total = SumItems(cart.items)]

\* The cart add_to_cart persists.
AddItem(cart, product, quantity) ==
    WithTotal([cart EXCEPT !.items = MergeItem(@, NewCartItem(product, quantity))])

\* A removal that takes one unit off the line and drops it at zero.
RemoveItemOneUnit(cart, pid) ==
    LET dec == [i \in 1..Len(cart.items) |->
                   IF cart.items[i].product_id = pid
                   THEN [cart.items[i] EXCEPT !.quantity = @ - 1]
                   ELSE cart.items[i]]
    IN  WithTotal([cart EXCEPT !.items = SelectSeq(dec, LAMBDA item : item.quantity > 0)])

\* The cart remove_from_cart persists.
RemoveItem(cart, pid) ==
    WithTotal([cart EXCEPT !.items =
                   SelectSeq(@, LAMBDA item : item.product_id # pid)])

\* A get_cart that builds a new cart without looking for a stored one.
GetCartFindAlwaysNew(p) ==
    /\ pc[p] = "get_find"
    /\ loc' = [loc EXCEPT ![p].cart = NewCart(FreshId(nextId), cur[p].id)]
    /\ nextId' = nextId + 1
    /\ pc' = [pc EXCEPT ![p] = "get_insert"]
    /\ UNCHANGED <<users, carts, products, categories, reviews, now, issued, req, cur, resp,
                   nreq, nticks>>

\* GET /api/cart
GetCartFind(p) ==
    /\ pc[p] = "get_find"
    /\ LET cart == FindOne(carts, "user_id", cur[p].id, NoCart)
       IN  IF cart = NoCart
           THEN /\ loc' = [loc EXCEPT ![p].cart = NewCart(FreshId(nextId), cur[p].id)]
                /\ nextId' = nextId + 1
                /\ pc' = [pc EXCEPT ![p] = "get_insert"]
                /\ UNCHANGED resp
           ELSE /\ Return(p, "", cart)
                /\ UNCHANGED <<loc, nextId>>
    /\ UNCHANGED <<users, carts, products, categories, reviews, now, issued, req, cur, nreq, nticks>>

GetCartInsert(p) ==
    /\ pc[p] = "get_insert"
    /\ carts' = InsertOne(carts, loc[p].cart)
    /\ Return(p, "", loc[p].cart)
    /\ UNCHANGED <<users, products, categories, reviews, now, issued, nextId, req, cur, loc, nreq, nticks>>

\* An add_to_cart that goes on whether the product exists or not.
AddFindProductUnchecked(p) ==
    /\ pc[p] = "add_find_product"
    /\ loc' = [loc EXCEPT ![p].product =
                   FindOne(products, "id", req[p].product_id, NoProduct)]
    /\ pc' = [pc EXCEPT ![p] = "add_find_cart"]
    /\ UNCHANGED <<users, carts, products, categories, reviews, now, issued, nextId, req, cur,
                   resp, nreq, nticks>>

\* POST /api/cart/add
AddFindProduct(p) ==
    /\ pc[p] = "add_find_product"
    /\ LET product == FindOne(products, "id", req[p].product_id, NoProduct)
       IN  IF product = NoProduct
           THEN /\ Raise(p, 404, "Product not found")
                /\ UNCHANGED loc
           ELSE /\ loc' = [loc EXCEPT ![p].product = product]
                /\ pc' = [pc EXCEPT ![p] = "add_find_cart"]
                /\ UNCHANGED resp
    /\ UNCHANGED <<users, carts, products, categories, reviews, now, issued, nextId, req, cur, nreq, nticks>>

AddFindCart(p) ==
    /\ pc[p] = "add_find_cart"
    /\ LET cart == FindOne(carts, "user_id", cur[p].id, NoCart)
       IN  IF cart = NoCart
           THEN /\ loc' = [loc EXCEPT ![p].cart = NewCart(FreshId(nextId), cur[p].id),
                                      ![p].found = FALSE]
                /\ nextId' = nextId + 1
           ELSE /\ loc' = [loc EXCEPT ![p].cart = cart, ![p].found = TRUE]
                /\ UNCHANGED nextId
    /\ pc' = [pc EXCEPT ![p] = "add_replace"]
    /\ UNCHANGED <<users, carts, products, categories, reviews, now, issued, req, cur, resp, nreq, nticks>>

AddReplace(p) ==
    /\ pc[p] = "add_replace"
    /\ LET cart == AddItem(loc[p].cart, loc[p].product, GetQuantity(req[p]))
       IN  /\ carts' = ReplaceOne(carts, "user_id", cur[p].id, cart, TRUE)
           /\ Return(p, "Item added to cart", cart)
    /\ UNCHANGED <<users, products, categories, reviews, now, issued, nextId, req, cur, loc, nreq, nticks>>

\* A remove_from_cart that goes on whether the user has a cart or not.
RemoveFindUnchecked(p) ==
    /\ pc[p] = "remove_find"
    /\ loc' = [loc EXCEPT ![p].cart = FindOne(carts, "user_id", cur[p].id, NoCart),
                          ![p].found = TRUE]
    /\ pc' = [pc EXCEPT ![p] = "remove_replace"]
    /\ UNCHANGED <<users, carts, products, categories, reviews, now, issued, nextId, req, cur,
                   resp, nreq, nticks>>

\* DELETE /api/cart/remove/{product_id}
RemoveFind(p) ==
    /\ pc[p] = "remove_find"
    /\ LET cart == FindOne(carts, "user_id", cur[p].id, NoCart)
       IN  IF cart = NoCart
           THEN /\ Raise(p, 404, "Cart not found")
                /\ UNCHANGED loc
           ELSE /\ loc' = [loc EXCEPT ![p].cart = cart, ![p].found = TRUE]
                /\ pc' = [pc EXCEPT ![p] = "remove_replace"]
                /\ UNCHANGED resp
    /\ UNCHANGED <<users, carts, products, categories, reviews, now, issued, nextId, req, cur, nreq, nticks>>

RemoveReplace(p) ==
    /\ pc[p] = "remove_replace"
    /\ LET cart == RemoveItem(loc[p].cart, req[p].product_id)
       IN  /\ carts' = ReplaceOne(carts, "user_id", cur[p].id, cart, FALSE)
           /\ Return(p, "Item removed from cart", cart)
    /\ UNCHANGED <<users, products, categories, reviews, now, issued, nextId, req, cur, loc, nreq, nticks>>

(***************************************************************************)
(* Catalog and review routes (admin).                                      *)
(***************************************************************************)
\* A check that lets every resolved user through.
IsAdminAnyone(user) == TRUE

\* current_user.is_admin
IsAdmin(user) == user.is_admin

\* Category(**category_data) with a fresh id.
NewCategory(id, data) == [id |-> id, name |-> data.name]

\* Review(**review_data.dict()) with a fresh id.
NewReview(id, data) == [id |-> id, user_name |-> data.name, rating |-> data.rating]

\* A product whose category_name is not taken from the category document.
NewProductUnstamped(id, data, category) ==
    [id |-> id, name |-> data.name, image_url |-> data.image_url,
     price |-> data.price, category_id |-> data.category_id,
     category_name |-> ""]

\* Product(**product_dict) with a fresh id, after category_name was stamped
\* from the category document.
NewProduct(id, data, category) ==
    [id |-> id, name |-> data.name, image_url |-> data.image_url,
     price |-> data.price, category_id |-> data.category_id,
     category_name |-> category.name]

\* A lookup for which every category_id resolves.
FindCategoryAny(category_id) == [id |-> category_id, name |-> ""]

\* db.categories.find_one({"id": product_data.category_id})
FindCategory(category_id) == FindOne(categories, "id", category_id, NoCategory)

\* POST /api/categories
CreateCategory(p) ==
    /\ pc[p] = "category_insert"
    /\ IF ~IsAdmin(cur[p])
       THEN /\ Raise(p, 403, "Not authorized")
            /\ UNCHANGED <<categories, nextId>>
       ELSE /\ categories' = InsertOne(categories, NewCategory(FreshId(nextId), req[p]))
            /\ nextId' = nextId + 1
            /\ Return(p, "", NoCart)
    /\ UNCHANGED <<users, carts, products, reviews, now, issued, req, cur, loc, nreq, nticks>>

\* POST /api/products
CreateProductFind(p) ==
    /\ pc[p] = "product_find"
    /\ LET category == FindCategory(req[p].category_id)
       IN  IF ~IsAdmin(cur[p])
           THEN /\ Raise(p, 403, "Not authorized")
                /\ UNCHANGED <<loc, nextId>>
           ELSE IF category = NoCategory
           THEN /\ Raise(p, 400, "Category not found")
                /\ UNCHANGED <<loc, nextId>>
           ELSE /\ loc' = [loc EXCEPT ![p].product =
                               NewProduct(FreshId(nextId), req[p], category)]
                /\ nextId' = nextId + 1
                /\ pc' = [pc EXCEPT ![p] = "product_insert"]
                /\ UNCHANGED resp
    /\ UNCHANGED <<users, carts, products, categories, reviews, now, issued, req, cur, nreq, nticks>>

CreateProductInsert(p) ==
    /\ pc[p] = "product_insert"
    /\ products' = InsertOne(products, loc[p].product)
    /\ Return(p, "", NoCart)
    /\ UNCHANGED <<users, carts, categories, reviews, now, issued, nextId, req, cur, loc, nreq, nticks>>

\* POST /api/reviews
CreateReview(p) ==
    /\ pc[p] = "review_insert"
    /\ IF ~IsAdmin(cur[p])
       THEN /\ Raise(p, 403, "Not authorized")
            /\ UNCHANGED <<reviews, nextId>>
       ELSE /\ reviews' = InsertOne(reviews, NewReview(FreshId(nextId), req[p]))
            /\ nextId' = nextId + 1
            /\ Return(p, "", NoCart)
    /\ UNCHANGED <<users, carts, products, categories, now, issued, req, cur, loc, nreq, nticks>>

(***************************************************************************)
(* Auth routes.                                                            *)
(***************************************************************************)
\* A token together with the expires_delta and the instant of its creation.
Grant(sub, delta, t) ==
    [tok |-> CreateAccessToken(sub, delta, t), delta |-> delta, at |-> t]

\* UserCreate: the validated body of register keeps the fields of the model
\* and drops every other key the caller sent.
UserCreateFields == {"email", "password"}
UserCreate(body) == [f \in UserCreateFields |-> body[f]]

\* A register that makes every new user an admin.
NewUserPromoted(id, email, password) ==
    [id |-> id, email |-> email, password |-> GetPasswordHash(password, id),
     is_admin |-> TRUE]

\* The document register inserts: User(...) with a fresh id and is_admin
\* False, plus the hashed password.
NewUser(id, email, password) ==
    [id |-> id, email |-> email, password |-> GetPasswordHash(password, id),
     is_admin |-> FALSE]

\* A register without the existence check.
EmailTakenUnchecked(email) == FALSE

\* The existence check of register.
EmailTaken(email) == FindOne(users, "email", email, NoUser) # NoUser

\* POST /api/auth/register
RegisterFind(p) ==
    /\ pc[p] = "reg_find"
    /\ IF EmailTaken(req[p].email)
       THEN /\ Raise(p, 400, "Email already registered")
            /\ UNCHANGED <<loc, nextId>>
       ELSE /\ loc' = [loc EXCEPT ![p].user =
                           NewUser(FreshId(nextId), UserCreate(req[p]).email,
                                   UserCreate(req[p]).password)]
            /\ nextId' = nextId + 1
            /\ pc' = [pc EXCEPT ![p] = "reg_insert"]
            /\ UNCHANGED resp
    /\ UNCHANGED <<users, carts, products, categories, reviews, now, issued, req, cur, nreq, nticks>>

RegisterInsert(p) ==
    /\ pc[p] = "reg_insert"
    /\ users' = InsertOne(users, loc[p].user)
    /\ issued' = issued \cup
           {Grant(loc[p].user.id, Delta(ACCESS_TOKEN_EXPIRE_MINUTES), now)}
    /\ ReturnToken(p, Grant(loc[p].user.id, Delta(ACCESS_TOKEN_EXPIRE_MINUTES), now).tok,
                   UserModel(loc[p].user))
    /\ UNCHANGED <<carts, products, categories, reviews, now, nextId, req, cur, loc, nreq, nticks>>

\* POST /api/auth/login
Login(p) ==
    /\ pc[p] = "login_find"
    /\ LET user == FindOne(users, "email", req[p].email, NoUser)
           grant == Grant(user.id, Delta(ACCESS_TOKEN_EXPIRE_MINUTES), now)
       IN  IF user = NoUser \/ ~VerifyPassword(req[p].password, user.password)
           THEN /\ Raise(p, 401, "Incorrect email or password")
                /\ UNCHANGED issued
           ELSE /\ issued' = issued \cup {grant}
                /\ ReturnToken(p, grant.tok, UserModel(user))
    /\ UNCHANGED <<users, carts, products, categories, reviews, now, nextId, req, cur, loc,
                   nreq, nticks>>

(***************************************************************************)
(* The clock, and create_access_token applied to arbitrary arguments.      *)
(***************************************************************************)
Tick(d) ==
    /\ nticks < MaxTicks
    /\ nticks' = nticks + 1
    /\ now' = now + d
    /\ UNCHANGED <<users, carts, products, categories, reviews, issued, nextId, pc, req, cur, loc, resp, nreq>>

IssueToken(sub, delta) ==
    /\ Cardinality(issued) < MaxIssued
    /\ Grant(sub, delta, now) \notin issued
    /\ issued' = issued \cup {Grant(sub, delta, now)}
    /\ UNCHANGED <<users, carts, products, categories, reviews, now, nextId, pc, req, cur, loc, resp, nreq, nticks>>

(***************************************************************************)
(* Initial states: the database after initialize_data has seeded the       *)
(* catalog and the admin user, and after one shopper has registered.       *)
(***************************************************************************)
AdminId == 1
ShopperId == 2
SofaId == 3
PuffId == 4
MissingId == 9     \* an id that no document carries

AdminEmail == "admin@estofados.com"
ShopperEmail == "joao@test.com"
OtherEmail == "maria@test.com"
ThirdEmail == "ana@test.com"

SeededUsers ==
    << [NewUser(AdminId, AdminEmail, "admin123") EXCEPT !.is_admin = TRUE],
       NewUser(ShopperId, ShopperEmail, "123456") >>

\* Prices of two seeded products, in cents.
SofaPrice == 329990
PuffPrice == 49990

\* Two of the seeded categories and one product of each.
SofasId == 11
PuffsId == 12

SeededCategories ==
    << [id |-> SofasId, name |-> "Sofas & Sofas Booth"],
       [id |-> PuffsId, name |-> "Puffs Modernos"] >>

Sofa ==
    [id |-> SofaId, name |-> "Sofa Booth Classico Vermelho",
     image_url |-> "https://images.pexels.com/photos/6531775/pexels-photo-6531775.jpeg",
     price |-> SofaPrice, category_id |-> SofasId,
     category_name |-> "Sofas & Sofas Booth"]

Puff ==
    [id |-> PuffId, name |-> "Puff Redondo Veludo Verde",
     image_url |-> "https://images.unsplash.com/photo-1560448204-603b3fc33ddc",
     price |-> PuffPrice, category_id |-> PuffsId,
     category_name |-> "Puffs Modernos"]

SeededProducts == << Sofa, Puff >>

\* One of the seeded reviews.
ReviewId == 13

SeededReviews == << [id |-> ReviewId, user_name |-> "Mariana Silva", rating |-> 5] >>

ShopperGrant == Grant(ShopperId, Delta(ACCESS_TOKEN_EXPIRE_MINUTES), 0)
AdminGrant == Grant(AdminId, Delta(ACCESS_TOKEN_EXPIRE_MINUTES), 0)

\* A token that was not signed with SECRET_KEY.
ForgedToken == [sub |-> ShopperId, exp |-> ACCESS_TOKEN_EXPIRE_MINUTES, sig |-> FALSE]

InitRequests ==
    /\ pc = [p \in Procs |-> "idle"]
    /\ req = [p \in Procs |-> NoReq]
    /\ cur = [p \in Procs |-> NoUser]
    /\ loc = [p \in Procs |-> NoLoc]
    /\ resp = [p \in Procs |-> NoResp]
    /\ nreq = 0
    /\ nticks = 0

CartReq(op, tok, pid, q) ==
    [NoReq EXCEPT !.op = op, !.tok = tok, !.product_id = pid, !.quantity = q,
                  !.has_quantity = TRUE]

RegisterReq(email, password) ==
    [NoReq EXCEPT !.op = "register", !.email = email, !.password = password]

(***************************************************************************)
(* SpecCart: concurrent cart requests of the seeded users.                 *)
(***************************************************************************)
Quantities == {1, 2, 3}

CartRequests ==
    {CartReq("get_cart", t, None, 0) : t \in {ShopperGrant.tok, ForgedToken}}
    \cup {CartReq("add", ShopperGrant.tok, pid, q) :
              pid \in {SofaId, PuffId}, q \in Quantities}
    \cup {CartReq("add", ShopperGrant.tok, MissingId, 1),
          CartReq("add", AdminGrant.tok, SofaId, 1)}
    \cup {CartReq("remove", ShopperGrant.tok, pid, 0) : pid \in {SofaId, PuffId}}

\* The shopper has no cart yet, or has the cart left by earlier
\* add_to_cart requests (with the uuid that was drawn for it).
ShopperCartId == 5

SeededCarts ==
    { <<>>,
      << [id |-> ShopperCartId, user_id |-> ShopperId, total |-> PuffPrice,
          items |-> << NewCartItem(Puff, 1) >>] >>,
      << [id |-> ShopperCartId, user_id |-> ShopperId, total |-> 2 * SofaPrice + PuffPrice,
          items |-> << NewCartItem(Sofa, 2), NewCartItem(Puff, 1) >>] >> }

InitCart ==
    /\ users = SeededUsers
    /\ carts \in SeededCarts
    /\ products = SeededProducts
    /\ categories = SeededCategories
    /\ reviews = SeededReviews
    /\ now = 0
    /\ issued = {ShopperGrant, AdminGrant}
    /\ nextId = IF carts = <<>> THEN PuffId ELSE ShopperCartId
    /\ InitRequests

CartStep(p) ==
    \/ GetCurrentUser(p)
    \/ GetCartFind(p)
    \/ GetCartInsert(p)
    \/ AddFindProduct(p)
    \/ AddFindCart(p)
    \/ AddReplace(p)
    \/ RemoveFind(p)
    \/ RemoveReplace(p)
    \/ Finish(p)

NextCart ==
    \E p \in Procs :
        \/ \E r \in CartRequests : Start(p, r)
        \/ CartStep(p)

SpecCart == InitCart /\ [][NextCart]_vars
(***************************************************************************)
(* SpecReg: concurrent registrations against the seeded user directory.    *)
(***************************************************************************)
Passwords == {"123456", "secret"}

RegisterRequests ==
    {RegisterReq(e, pw) : e \in {ShopperEmail, OtherEmail, ThirdEmail}, pw \in Passwords}

InitReg ==
    /\ users = SeededUsers
    /\ carts = <<>>
    /\ products = SeededProducts
    /\ categories = SeededCategories
    /\ reviews = SeededReviews
    /\ now = 0
    /\ issued = {ShopperGrant, AdminGrant}
    /\ nextId = PuffId
    /\ InitRequests

NextReg ==
    \E p \in Procs :
        \/ \E r \in RegisterRequests : Start(p, r)
        \/ RegisterFind(p)
        \/ RegisterInsert(p)
        \/ Finish(p)

SpecReg == InitReg /\ [][NextReg]_vars

(***************************************************************************)
(* SpecAuth: create_access_token applied to arbitrary subjects and         *)
(* lifetimes, a clock, and protected requests that present the tokens.     *)
(***************************************************************************)
Subjects == {ShopperId}
Deltas == {NoDelta, Delta(0), Delta(-1)}
TickSteps == {DEFAULT_EXPIRE_MINUTES}

\* Tokens signed with SECRET_KEY whose subject is not a stored user, or
\* that carry no "sub" claim at all.
StrangerToken == [sub |-> MissingId, exp |-> ACCESS_TOKEN_EXPIRE_MINUTES, sig |-> TRUE]
AnonymousToken == [sub |-> None, exp |-> ACCESS_TOKEN_EXPIRE_MINUTES, sig |-> TRUE]

\* The tokens a client can present: the ones handed out, and the ones above.
Presentable == {g.tok : g \in issued} \cup {ForgedToken, StrangerToken, AnonymousToken}

AuthRequests == {CartReq("get_cart", t, None, 0) : t \in Presentable}

InitAuth ==
    /\ users = SeededUsers
    /\ carts = <<>>
    /\ products = SeededProducts
    /\ categories = SeededCategories
    /\ reviews = SeededReviews
    /\ now = 0
    /\ issued = {ShopperGrant}
    /\ nextId = PuffId
    /\ InitRequests

NextAuth ==
    \/ \E sub \in Subjects, delta \in Deltas : IssueToken(sub, delta)
    \/ \E d \in TickSteps : Tick(d)
    \/ \E p \in Procs :
        \/ \E r \in AuthRequests : Start(p, r)
        \/ GetCurrentUser(p)
        \/ GetCartFind(p)
        \/ GetCartInsert(p)
        \/ Finish(p)

SpecAuth == InitAuth /\ [][NextAuth]_vars

(***************************************************************************)
(* SpecSeq: one client that sends each cart request after the response to  *)
(* the previous one (as the test suite does).                              *)
(***************************************************************************)
StartInARow(p, r) ==
    /\ \A q \in Procs : pc[q] \in {"idle", "done"}
    /\ Start(p, r)

NextSeq ==
    \E p \in Procs :
        \/ \E r \in CartRequests : StartInARow(p, r)
        \/ CartStep(p)

SpecSeq == InitCart /\ [][NextSeq]_vars

(***************************************************************************)
(* SpecSnap: cart requests while the catalog changes under them.  No route *)
(* updates a product: the document is changed in db.products directly, to  *)
(* the name, price and image of another entry of the seed data, and back.  *)
(***************************************************************************)
SofaNewPrice == 359990

SofaEdited ==
    [Sofa EXCEPT !.name = "Sofa Booth Elegante Preto",
                 !.price = SofaNewPrice,
                 !.image_url = "https://images.unsplash.com/photo-1598299827130-5aa1d5149c8d"]

EditProduct(i) ==
    /\ products[i].id = SofaId
    /\ products' = [products EXCEPT ![i] = IF @ = Sofa THEN SofaEdited ELSE Sofa]
    /\ UNCHANGED <<users, carts, categories, reviews, now, issued, nextId, pc, req, cur, loc,
                   resp, nreq, nticks>>

SnapRequests ==
    {CartReq("add", ShopperGrant.tok, SofaId, q) : q \in {1, 2}}
    \cup {CartReq("add", ShopperGrant.tok, PuffId, 1),
          CartReq("remove", ShopperGrant.tok, SofaId, 0)}

NextSnap ==
    \/ \E i \in 1..Len(products) : EditProduct(i)
    \/ \E p \in Procs :
        \/ \E r \in SnapRequests : Start(p, r)
        \/ GetCurrentUser(p)
        \/ AddFindProduct(p)
        \/ AddFindCart(p)
        \/ AddReplace(p)
        \/ RemoveFind(p)
        \/ RemoveReplace(p)
        \/ Finish(p)

SpecSnap == InitCart /\ [][NextSnap]_vars

(***************************************************************************)
(* SpecCancel: concurrent cart requests, any of which may be abandoned     *)
(* (its task cancelled) while it is suspended before its next database     *)
(* call; no response is delivered for it.                                  *)
(***************************************************************************)
Abandon(p) ==
    /\ pc[p] \notin {"idle", "done"}
    /\ pc' = [pc EXCEPT ![p] = "done"]
    /\ resp' = [resp EXCEPT ![p] = NoResp]
    /\ UNCHANGED <<users, carts, products, categories, reviews, now, issued, nextId, req,
                   cur, loc, nreq, nticks>>

CancelRequests ==
    {CartReq("get_cart", ShopperGrant.tok, None, 0),
     CartReq("add", ShopperGrant.tok, SofaId, 1),
     CartReq("add", ShopperGrant.tok, PuffId, 2),
     CartReq("remove", ShopperGrant.tok, PuffId, 0)}

NextCancel ==
    \E p \in Procs :
        \/ \E r \in CancelRequests : Start(p, r)
        \/ CartStep(p)
        \/ Abandon(p)

SpecCancel == InitCart /\ [][NextCancel]_vars

(***************************************************************************)
(* SpecQty: add_to_cart with any quantity the caller may send, or none.    *)
(***************************************************************************)
AnyQuantities == {-1, 0, 1}

\* A body of POST /api/cart/add without the "quantity" key.
AddReqNoQuantity(tok, pid) ==
    [NoReq EXCEPT !.op = "add", !.tok = tok, !.product_id = pid]

QtyRequests ==
    {CartReq("add", ShopperGrant.tok, SofaId, q) : q \in AnyQuantities}
    \cup {AddReqNoQuantity(ShopperGrant.tok, pid) : pid \in {SofaId, PuffId}}

NextQty ==
    \E p \in Procs :
        \/ \E r \in QtyRequests : Start(p, r)
        \/ GetCurrentUser(p)
        \/ AddFindProduct(p)
        \/ AddFindCart(p)
        \/ AddReplace(p)
        \/ Finish(p)

SpecQty == InitCart /\ [][NextQty]_vars

(***************************************************************************)
(* SpecAdmin: concurrent create_category / create_product / create_review  *)
(* requests of the admin and of the shopper.                               *)
(***************************************************************************)
AdminReq(op, tok, category_id) ==
    [NoReq EXCEPT !.op = op, !.tok = tok, !.category_id = category_id,
                  !.name = "Novo", !.image_url = "https://images/novo.jpeg",
                  !.price = 100000, !.rating = 5]

AdminRequests ==
    {AdminReq(op, t, None) :
         op \in {"create_category", "create_review"},
         t \in {AdminGrant.tok, ShopperGrant.tok}}
    \cup {AdminReq("create_product", t, c) :
              t \in {AdminGrant.tok, ShopperGrant.tok}, c \in {PuffsId, MissingId}}

InitAdmin ==
    /\ users = SeededUsers
    /\ carts = <<>>
    /\ products = SeededProducts
    /\ categories = SeededCategories
    /\ reviews = SeededReviews
    /\ now = 0
    /\ issued = {ShopperGrant, AdminGrant}
    /\ nextId = ReviewId
    /\ InitRequests

NextAdmin ==
    \E p \in Procs :
        \/ \E r \in AdminRequests : Start(p, r)
        \/ GetCurrentUser(p)
        \/ CreateCategory(p)
        \/ CreateProductFind(p)
        \/ CreateProductInsert(p)
        \/ CreateReview(p)
        \/ Finish(p)

SpecAdmin == InitAdmin /\ [][NextAdmin]_vars

(***************************************************************************)
(* SpecStamp: the admin routes while a category is renamed under them.  No *)
(* route updates a category: the document is changed in db.categories      *)
(* directly, and back.                                                     *)
(***************************************************************************)
PuffsNewName == "Puffs e Pufes"

EditCategory(i) ==
    /\ categories[i].id = PuffsId
    /\ categories' = [categories EXCEPT ![i].name =
                          IF @ = Puff.category_name THEN PuffsNewName
                          ELSE Puff.category_name]
    /\ UNCHANGED <<users, carts, products, reviews, now, issued, nextId, pc, req, cur, loc,
                   resp, nreq, nticks>>

NextStamp ==
    \/ \E i \in 1..Len(categories) : EditCategory(i)
    \/ NextAdmin

SpecStamp == InitAdmin /\ [][NextStamp]_vars

(***************************************************************************)
(* SpecLogin: registrations, logins, and protected requests that present   *)
(* the tokens handed out.                                                  *)
(***************************************************************************)
LoginReq(email, password) ==
    [NoReq EXCEPT !.op = "login", !.email = email, !.password = password]

\* The last one carries "is_admin": true in its body.
LoginRegisterRequests ==
    {RegisterReq(OtherEmail, "123456"),
     [RegisterReq(OtherEmail, "secret") EXCEPT !.is_admin = TRUE]}

LoginRequests ==
    {LoginReq(OtherEmail, pw) : pw \in Passwords}

\* A protected request that writes nothing when the user has no cart.
ProtectedRequests == {CartReq("remove", g.tok, SofaId, 0) : g \in issued}

NextLogin ==
    \E p \in Procs :
        \/ \E r \in LoginRegisterRequests : Start(p, r)
        \/ \E r \in LoginRequests \cup ProtectedRequests : StartReadOnly(p, r)
        \/ RegisterFind(p)
        \/ RegisterInsert(p)
        \/ Login(p)
        \/ GetCurrentUser(p)
        \/ RemoveFind(p)
        \/ Finish(p)

SpecLogin == InitReg /\ [][NextLogin]_vars

(***************************************************************************)
(* SpecBoot: the process is started again (startup_event runs              *)
(* initialize_data before any request is served; the requests of the       *)
(* previous process are gone), between logins and protected requests.      *)
(***************************************************************************)
\* The seed documents with the ids drawn at this start: uuid number
\* n + 1 .. for the categories, then the products, then the reviews.
FreshCategories(n) ==
    [i \in 1..Len(SeededCategories) |->
        [SeededCategories[i] EXCEPT !.id = FreshId(n + i - 1)]]

\* category_map[slug]["id"]: the new id of the category of a seed product.
FreshCategoryId(n, old) ==
    FreshCategories(n)[Min(Matches(SeededCategories, "id", old))].id

FreshProducts(n) ==
    [i \in 1..Len(SeededProducts) |->
        [SeededProducts[i] EXCEPT
            !.id = FreshId(n + Len(SeededCategories) + i - 1),
            !.category_id = FreshCategoryId(n, @)]]

FreshReviews(n) ==
    [i \in 1..Len(SeededReviews) |->
        [SeededReviews[i] EXCEPT
            !.id = FreshId(n + Len(SeededCategories) + Len(SeededProducts) + i - 1)]]

SeedSize == Len(SeededCategories) + Len(SeededProducts) + Len(SeededReviews)

\* Each start has inserted one admin record.
Starts == Cardinality(Matches(users, "is_admin", TRUE))

StartupEvent ==
    /\ Starts < MaxStarts
    /\ categories' = FreshCategories(nextId)
    /\ products' = FreshProducts(nextId)
    /\ reviews' = FreshReviews(nextId)
    /\ users' = InsertOne(users,
                    [NewUser(FreshId(nextId + SeedSize), AdminEmail, "admin123")
                         EXCEPT !.is_admin = TRUE])
    /\ nextId' = nextId + SeedSize + 1
    /\ pc' = [p \in Procs |-> "idle"]
    /\ req' = [p \in Procs |-> NoReq]
    /\ cur' = [p \in Procs |-> NoUser]
    /\ loc' = [p \in Procs |-> NoLoc]
    /\ resp' = [p \in Procs |-> NoResp]
    /\ UNCHANGED <<carts, now, issued, nreq, nticks>>

BootRequests ==
    {LoginReq(AdminEmail, "admin123"), LoginReq(ShopperEmail, "123456")}

NextBoot ==
    \/ StartupEvent
    \/ \E p \in Procs :
        \/ \E r \in BootRequests \cup ProtectedRequests : StartReadOnly(p, r)
        \/ Login(p)
        \/ GetCurrentUser(p)
        \/ RemoveFind(p)
        \/ Finish(p)

SpecBoot == InitReg /\ [][NextBoot]_vars

(***************************************************************************)
(* Properties.                                                             *)
(***************************************************************************)
UserIds == {users[i].id : i \in 1..Len(users)}

\* The cart document a read of the user's cart returns.
Stored(coll, u) == FindOne(coll, "user_id", u, NoCart)

\* Number of lines of a cart for a product, and the quantity of the first one.
Lines(items, pid) == Cardinality(Matches(items, "product_id", pid))
QuantityOf(items, pid) ==
    IF Matches(items, "product_id", pid) = {} THEN 0
    ELSE items[Min(Matches(items, "product_id", pid))].quantity

\* Sum over the lines of price x quantity, by position.
RECURSIVE LineTotal(_, _)
LineTotal(items, n) ==
    IF n = 0 THEN 0 ELSE items[n].price * items[n].quantity + LineTotal(items, n - 1)

\* The finished, successful add_item(u, pid, q) requests.
DoneAdds(u, pid, q) ==
    {p \in Procs : /\ pc[p] = "done"
                   /\ resp[p].status = 200
                   /\ req[p].op = "add"
                   /\ cur[p].id = u
                   /\ req[p].product_id = pid
                   /\ req[p].quantity = q}

\* C1: when the only requests ever sent are N add_item(u, p, 1) for a user
\* who had no cart, and all N have returned successfully, the stored cart of
\* u has one line for p with quantity N.
C1_NoLostUpdate ==
    \A u \in UserIds, pid \in {SofaId, PuffId} :
        LET S == DoneAdds(u, pid, 1)
        IN  (/\ S # {}
             /\ nreq = Cardinality(S)
             /\ \E p \in S : ~loc[p].found)
            => /\ Lines(Stored(carts, u).items, pid) = 1
               /\ QuantityOf(Stored(carts, u).items, pid) = Cardinality(S)

\* C2: the cart collection holds at most one cart document per user_id.
C2_OneCartPerUser ==
    \A u \in UserIds : Cardinality(Matches(carts, "user_id", u)) <= 1

\* C3: no two persisted user records share the same email.
C3_UniqueEmails ==
    \A i, j \in 1..Len(users) : i # j => users[i].email # users[j].email

\* C4: a request that presents a token created with ttl = 0, or with an
\* expiry already in the past, is answered 401 by get_current_user.
C4_ZeroTtlRejected ==
    [][\A p \in Procs :
          (/\ pc[p] = "auth"
           /\ pc'[p] # "auth"
           /\ \E g \in issued : /\ g.tok = req[p].tok
                                /\ g.delta.some
                                /\ g.delta.minutes <= 0)
          => resp'[p].status = 401]_vars

\* C5: in every persisted cart total is the sum over its items of
\* price x quantity (0 for an empty cart).
C5_TotalIsSum ==
    \A i \in 1..Len(carts) :
        carts[i].total = LineTotal(carts[i].items, Len(carts[i].items))

C5_Witness ==
    \E p \in Procs :
        /\ pc[p] = "done"
        /\ req[p].op = "remove"
        /\ resp[p].status = 200
        /\ Len(loc[p].cart.items) = 2
        /\ \E q \in Procs : pc[q] = "done" /\ req[q].op = "add" /\ resp[q].status = 200
        /\ Len(Stored(carts, ShopperId).items) = 1
        /\ Stored(carts, ShopperId).total = 4 * PuffPrice

\* C6: an add_item(u, p, b) that writes the cart it read (no other mutation
\* in between) leaves exactly one line for p, whose quantity is the previous
\* quantity a plus b, and total grows by b x price.
C6_QuantitiesAccumulate ==
    [][\A p \in Procs :
          (/\ pc[p] = "add_replace"
           /\ pc'[p] = "done"
           /\ Stored(carts, cur[p].id) = IF loc[p].found THEN loc[p].cart ELSE NoCart)
          => LET pid == req[p].product_id
                 b == req[p].quantity
                 old == Stored(carts, cur[p].id)
                 new == Stored(carts', cur[p].id)
             IN  /\ Lines(new.items, pid) = 1
                 /\ QuantityOf(new.items, pid) = QuantityOf(old.items, pid) + b
                 /\ new.total = old.total + b * loc[p].product.price
                 /\ Len(new.items) = Len(old.items) + (1 - Lines(old.items, pid))]_vars

\* add_item(u, Sofa, 2) followed by add_item(u, Sofa, 3): quantity 5, total 5 x price.
C6_Witness ==
    \E p \in Procs :
        /\ pc[p] = "done"
        /\ req[p].op = "add"
        /\ req[p].product_id = SofaId
        /\ req[p].quantity = 3
        /\ loc[p].found
        /\ QuantityOf(loc[p].cart.items, SofaId) = 2
        /\ Len(Stored(carts, ShopperId).items) = 1
        /\ QuantityOf(Stored(carts, ShopperId).items, SofaId) = 5
        /\ Stored(carts, ShopperId).total = 5 * SofaPrice

\* C7: in every persisted cart no two items have the same product_id.
C7_UniqueProductIds ==
    \A i \in 1..Len(carts) :
        \A a, b \in 1..Len(carts[i].items) :
            a # b => carts[i].items[a].product_id # carts[i].items[b].product_id

C7_Witness ==
    \E p \in Procs :
        /\ pc[p] = "done"
        /\ req[p].op = "add"
        /\ resp[p].status = 200
        /\ Lines(loc[p].cart.items, req[p].product_id) = 1
        /\ Lines(Stored(carts, ShopperId).items, req[p].product_id) = 1
        /\ Len(Stored(carts, ShopperId).items) = 2

\* C8: when the only requests sent are an add_item(u, p, q) and a
\* remove_item(u, r) with p # r on a cart that contained r, and both have
\* returned successfully, the stored cart has p with its quantity increased
\* by q, has no line for r, and total matches the items.
C8_AddAndRemoveBothApply ==
    \A a, r \in Procs :
        (/\ nreq = 2
         /\ pc[a] = "done" /\ req[a].op = "add" /\ resp[a].status = 200
         /\ pc[r] = "done" /\ req[r].op = "remove" /\ resp[r].status = 200
         /\ cur[a].id = cur[r].id
         /\ req[a].product_id # req[r].product_id
         /\ Lines(loc[r].cart.items, req[r].product_id) = 1)
        => LET cart == Stored(carts, cur[a].id)
           IN  /\ QuantityOf(cart.items, req[a].product_id) =
                      QuantityOf(loc[a].cart.items, req[a].product_id) + req[a].quantity
               /\ Lines(cart.items, req[r].product_id) = 0
               /\ cart.total = LineTotal(cart.items, Len(cart.items))

\* C9: a register request that runs its existence check when a user record
\* with its email is already stored ends with 400, inserts no user record
\* and issues no token; a finished request changes nothing afterwards.
C9_DuplicateEmailConflict ==
    [][\A p \in Procs :
          /\ (/\ pc[p] = "reg_find"
              /\ pc'[p] # "reg_find"
              /\ \E i \in 1..Len(users) : users[i].email = req[p].email)
             => /\ resp'[p].status = 400
                /\ pc'[p] = "done"
                /\ users' = users
                /\ issued' = issued
          /\ (pc[p] = "done" /\ pc'[p] # "done")
             => /\ users' = users
                /\ issued' = issued]_vars

\* The email was committed by a registration of this very run.
C9_Witness ==
    \E p \in Procs :
        /\ pc[p] = "done"
        /\ req[p].op = "register"
        /\ req[p].email = OtherEmail
        /\ resp[p].status = 400
        /\ Len(users) = 3

\* C10: get_current_user resolves a user only for a token with a valid
\* signature, not expired, whose subject is the id of a stored user; when
\* one of the three fails the request ends with 401 and the database is
\* unchanged, and only a request with a resolved user writes a cart.
C10_ResolveOnlyValid ==
    [][\A p \in Procs :
          LET tok == req[p].tok
              known == tok.sub # None /\ tok.sub \in UserIds
          IN  /\ (pc[p] = "auth" /\ pc'[p] # "auth")
                 => /\ cur'[p] # NoUser
                       => (tok.sig /\ tok.exp >= now /\ known /\ cur'[p].id = tok.sub)
                    /\ (~tok.sig \/ tok.exp < now \/ ~known)
                       => /\ resp'[p].status = 401
                          /\ pc'[p] = "done"
                          /\ cur'[p] = NoUser
                          /\ db' = db
              /\ (pc'[p] # pc[p] /\ db' # db)
                 => (cur[p] # NoUser /\ cur[p].id \in UserIds)]_vars

\* One request was refused for an unknown subject while another resolved.
C10_Witness ==
    \E p, q \in Procs :
        /\ pc[p] = "done"
        /\ resp[p].status = 401
        /\ req[p].tok.sig
        /\ req[p].tok.exp > now
        /\ req[p].tok.sub = MissingId
        /\ cur[q] # NoUser
        /\ pc[q] = "done"
        /\ resp[q].status = 200
        /\ Stored(carts, cur[q].id) # NoCart

\* Requests that get_current_user has refused.
Refused == {p \in Procs : pc[p] = "done" /\ cur[p] = NoUser /\ resp[p].status = 401}

\* C11: two requests refused by get_current_user get the same response
\* (status and detail), whatever made the token unacceptable: expired,
\* badly signed, without subject, or with a subject that is not a stored user.
C11_UniformFailure ==
    \A p, q \in Refused :
        /\ resp[p].status = resp[q].status
        /\ resp[p].detail = resp[q].detail

Catalog == <<categories, products, reviews>>

\* C12: create_category, create_product and create_review of a resolved
\* user who is not admin end with 403 and leave categories, products and
\* reviews unchanged; a request that changes one of the three collections
\* was sent by a stored user whose is_admin is true.
C12_AdminOnly ==
    [][\A p \in Procs :
          /\ (/\ pc[p] \in {"category_insert", "product_find", "review_insert"}
              /\ pc'[p] # pc[p]
              /\ ~FindOne(users, "id", req[p].tok.sub, NoUser).is_admin)
             => /\ resp'[p].status = 403
                /\ pc'[p] = "done"
                /\ Catalog' = Catalog
          /\ (pc'[p] # pc[p] /\ Catalog' # Catalog)
             => /\ req[p].op \in {"create_category", "create_product", "create_review"}
                /\ FindOne(users, "id", req[p].tok.sub, NoUser).is_admin]_vars

\* The shopper was refused a product while the admin added a category.
C12_Witness ==
    \E p, q \in Procs :
        /\ pc[p] = "done"
        /\ req[p].op = "create_product"
        /\ req[p].tok = ShopperGrant.tok
        /\ resp[p].status = 403
        /\ pc[q] = "done"
        /\ req[q].op = "create_category"
        /\ resp[q].status = 200
        /\ Len(categories) = Len(SeededCategories) + 1
        /\ products = SeededProducts

\* C13: every item of every persisted cart has a quantity >= 1, whatever
\* quantities the add_item requests carried (0, negative, or none).
C13_PositiveQuantities ==
    \A i \in 1..Len(carts) :
        \A a \in 1..Len(carts[i].items) : carts[i].items[a].quantity >= 1

\* The finished get_cart requests of user u that found no cart and created one.
Creators(u) ==
    {q \in Procs : /\ pc[q] = "done"
                   /\ req[q].op = "get_cart"
                   /\ resp[q].status = 200
                   /\ cur[q].id = u
                   /\ loc[q].cart # NoCart}

\* C14: a get_cart sent after the response to a get_cart that created the
\* user's cart returns the stored cart as it is, with the id the first call
\* returned, writes nothing, and the user has exactly one cart document.
C14_GetCartTwice ==
    [][\A p \in Procs :
          (/\ pc[p] = "get_find"
           /\ pc'[p] # "get_find"
           /\ Creators(cur[p].id) # {})
          => /\ pc'[p] = "done"
             /\ resp'[p].status = 200
             /\ resp'[p].cart = Stored(carts, cur[p].id)
             /\ \A q \in Creators(cur[p].id) : resp'[p].cart.id = resp[q].cart.id
             /\ carts' = carts
             /\ Cardinality(Matches(carts', "user_id", cur[p].id)) = 1]_vars

\* Two get_cart in a row of a user without cart: same id, one document.
C14_Witness ==
    \E p, q \in Procs :
        /\ q \in Creators(ShopperId)
        /\ pc[p] = "done"
        /\ req[p].op = "get_cart"
        /\ resp[p].status = 200
        /\ loc[p].cart = NoCart
        /\ resp[p].cart.id = resp[q].cart.id
        /\ resp[p].cart.items = <<>>
        /\ Len(carts) = 1

\* C15: a remove_item whose read finds no cart of the user ends with 404
\* "Cart not found" and writes nothing: the user still has no cart.
C15_RemoveWithoutCart ==
    [][\A p \in Procs :
          (/\ pc[p] = "remove_find"
           /\ pc'[p] # "remove_find"
           /\ Matches(carts, "user_id", cur[p].id) = {})
          => /\ pc'[p] = "done"
             /\ resp'[p].status = 404
             /\ carts' = carts
             /\ Matches(carts', "user_id", cur[p].id) = {}]_vars

C15_Witness ==
    \E p \in Procs :
        /\ pc[p] = "done"
        /\ req[p].op = "remove"
        /\ cur[p].id = ShopperId
        /\ resp[p].status = 404
        /\ resp[p].detail = "Cart not found"
        /\ Matches(carts, "user_id", ShopperId) = {}

\* The first n items without the ones of product pid, in their order.
RECURSIVE Kept(_, _, _)
Kept(items, pid, n) ==
    IF n = 0 THEN <<>>
    ELSE IF items[n].product_id = pid THEN Kept(items, pid, n - 1)
    ELSE Append(Kept(items, pid, n - 1), items[n])

\* C16: a remove_item(u, pid) that writes the cart it read leaves no line
\* for pid whatever its quantity was, keeps the other items as they were
\* and in their order, and stores total = sum of the remaining lines; a
\* cart whose only item was pid becomes empty with total 0.
C16_RemoveWholeLine ==
    [][\A p \in Procs :
          (/\ pc[p] = "remove_replace"
           /\ pc'[p] = "done"
           /\ Stored(carts, cur[p].id) = loc[p].cart)
          => LET pid == req[p].product_id
                 old == Stored(carts, cur[p].id)
                 new == Stored(carts', cur[p].id)
             IN  /\ resp'[p].status = 200
                 /\ resp'[p].cart = new
                 /\ new.id = old.id
                 /\ Lines(new.items, pid) = 0
                 /\ new.items = Kept(old.items, pid, Len(old.items))
                 /\ new.total = LineTotal(new.items, Len(new.items))
                 /\ (Len(old.items) = 1 /\ old.items[1].product_id = pid)
                    => (new.items = <<>> /\ new.total = 0)]_vars

\* The sofa line (quantity 2) was removed and the puff line stayed; then
\* the puff line, the only one left, was removed.
C16_Witness ==
    \E p, q \in Procs :
        /\ pc[p] = "done" /\ req[p].op = "remove" /\ resp[p].status = 200
        /\ req[p].product_id = SofaId
        /\ QuantityOf(loc[p].cart.items, SofaId) = 2
        /\ resp[p].cart.items = << NewCartItem(Puff, 1) >>
        /\ resp[p].cart.total = PuffPrice
        /\ pc[q] = "done" /\ req[q].op = "remove" /\ resp[q].status = 200
        /\ req[q].product_id = PuffId
        /\ loc[q].cart = resp[p].cart
        /\ Stored(carts, ShopperId).items = <<>>
        /\ Stored(carts, ShopperId).total = 0

\* C17: an add_item whose product_id is the id of no product ends with 404
\* and the cart collection is unchanged: no cart is created and a stored
\* cart keeps its items and total.
C17_AddUnknownProduct ==
    [][\A p \in Procs :
          (/\ pc[p] = "add_find_product"
           /\ pc'[p] # "add_find_product"
           /\ \A i \in 1..Len(products) : products[i].id # req[p].product_id)
          => /\ pc'[p] = "done"
             /\ resp'[p].status = 404
             /\ carts' = carts
             /\ nextId' = nextId]_vars

C17_Witness ==
    \E p \in Procs :
        /\ pc[p] = "done"
        /\ req[p].op = "add"
        /\ req[p].product_id = MissingId
        /\ resp[p].status = 404
        /\ resp[p].detail = "Product not found"
        /\ carts \in SeededCarts
        /\ carts # <<>>

\* The product fields a cart line carries are those of the product document.
SnapshotOf(item, product) ==
    /\ item.product_id = product.id
    /\ item.price = product.price
    /\ item.product_name = product.name
    /\ item.product_image = product.image_url

\* The step is the write of a cart request.
CartWrite(p) ==
    /\ pc[p] \in {"get_insert", "add_replace", "remove_replace"}
    /\ pc'[p] = "done"

\* C18: when add_item or remove_item writes the cart it read, every line
\* that was already in the cart keeps its price, product_name and
\* product_image (also when the product has changed in the catalog, and
\* when the request adds to that line), and a line that was not there
\* carries the fields of the product as the request found it; no other
\* step, a change of the catalog included, changes a stored cart.
C18_SnapshotKept ==
    [][/\ \A p \in Procs :
            (/\ pc[p] \in {"add_replace", "remove_replace"}
             /\ pc'[p] = "done"
             /\ Stored(carts, cur[p].id) = IF loc[p].found THEN loc[p].cart ELSE NoCart)
            => LET old == Stored(carts, cur[p].id).items
                   new == Stored(carts', cur[p].id).items
               IN  \A a \in 1..Len(new) :
                       LET was == Matches(old, "product_id", new[a].product_id)
                       IN  IF was # {}
                           THEN \A b \in was :
                                    /\ new[a].price = old[b].price
                                    /\ new[a].product_name = old[b].product_name
                                    /\ new[a].product_image = old[b].product_image
                           ELSE /\ pc[p] = "add_replace"
                                /\ SnapshotOf(new[a], loc[p].product)
       /\ (\A p \in Procs : ~CartWrite(p)) => carts' = carts]_vars

\* The sofa was 3299.90 when its line was inserted; the catalog changed;
\* a later add_item found the changed product and only raised the quantity.
C18_Witness ==
    \E p \in Procs :
        /\ pc[p] = "done"
        /\ req[p].op = "add"
        /\ req[p].product_id = SofaId
        /\ resp[p].status = 200
        /\ loc[p].found
        /\ loc[p].product = SofaEdited
        /\ Lines(loc[p].cart.items, SofaId) = 1
        /\ \E a \in 1..Len(Stored(carts, ShopperId).items) :
               LET item == Stored(carts, ShopperId).items[a]
               IN  /\ SnapshotOf(item, Sofa)
                   /\ item.quantity = QuantityOf(loc[p].cart.items, SofaId) + req[p].quantity

\* The cart documents in the collection.
StoredCarts == {carts[i] : i \in 1..Len(carts)}

\* The step is a read of the user's cart by request p.
CartRead(p) ==
    /\ pc[p] \in {"get_find", "add_find_cart", "remove_find"}
    /\ pc'[p] # pc[p]
    /\ resp'[p] # NoResp \/ pc'[p] # "done"

\* C19: the cart collection changes only in the single write of a cart
\* request, which puts one whole document (the items together with the
\* total computed from them) in place of the previous one; a read of the
\* user's cart returns a document that is in the collection at that instant
\* (or finds none), so it sees the cart before or after a write and nothing
\* in between; a request abandoned before its write changes nothing.
C19_NoPartialUpdate ==
    [][/\ carts' # carts
          => \E p \in Procs :
                 /\ CartWrite(p)
                 /\ resp'[p].status = 200
                 /\ resp'[p].cart.total =
                        LineTotal(resp'[p].cart.items, Len(resp'[p].cart.items))
                 /\ \/ carts' = Append(carts, resp'[p].cart)
                    \/ \E i \in 1..Len(carts) :
                           carts' = [carts EXCEPT ![i] = resp'[p].cart]
       /\ \A p \in Procs :
              /\ CartRead(p)
                 => LET seen == IF pc[p] = "get_find" /\ pc'[p] = "done"
                                THEN resp'[p].cart ELSE loc'[p].cart
                    IN  IF Matches(carts, "user_id", cur[p].id) = {}
                        THEN seen \in {NoCart, NewCart(FreshId(nextId), cur[p].id)}
                        ELSE seen \in StoredCarts /\ seen.user_id = cur[p].id
              /\ (pc[p] \notin {"idle", "done"} /\ pc'[p] = "done" /\ resp'[p] = NoResp)
                 => carts' = carts]_vars

\* Two add_item read the same cart; one wrote its cart, the other was
\* abandoned before its write: the stored cart is the one that was written.
C19_Witness ==
    \E p, q \in Procs :
        /\ pc[p] = "done" /\ req[p].op = "add" /\ resp[p].status = 200
        /\ pc[q] = "done" /\ req[q].op = "add" /\ resp[q] = NoResp
        /\ loc[p].found /\ loc[q].found
        /\ loc[q].cart = loc[p].cart
        /\ loc[q].product # NoProduct
        /\ cur[q].id = cur[p].id
        /\ Stored(carts, cur[p].id) = resp[p].cart
        /\ resp[p].cart # loc[p].cart

CategoryIds == {categories[i].id : i \in 1..Len(categories)}

\* C20: a create_product of an admin whose category_id is the id of no
\* category ends with 400 and inserts nothing; products are inserted only
\* by create_product, one document at a time, whose category_id is the
\* requested one and is the id of a stored category.
C20_CategoryMustExist ==
    [][\A p \in Procs :
          /\ (/\ pc[p] = "product_find"
              /\ pc'[p] # "product_find"
              /\ FindOne(users, "id", req[p].tok.sub, NoUser).is_admin
              /\ req[p].category_id \notin CategoryIds)
             => /\ pc'[p] = "done"
                /\ resp'[p].status = 400
                /\ products' = products
          /\ (pc'[p] # pc[p] /\ products' # products)
             => /\ req[p].op = "create_product"
                /\ Len(products') = Len(products) + 1
                /\ SubSeq(products', 1, Len(products)) = products
                /\ products'[Len(products')].category_id = req[p].category_id
                /\ req[p].category_id \in CategoryIds]_vars

\* The admin was refused a product of a missing category and created one
\* in the category Puffs Modernos.
C20_Witness ==
    \E p, q \in Procs :
        /\ pc[p] = "done"
        /\ req[p].op = "create_product"
        /\ req[p].tok = AdminGrant.tok
        /\ req[p].category_id = MissingId
        /\ resp[p].status = 400
        /\ resp[p].detail = "Category not found"
        /\ pc[q] = "done"
        /\ req[q].op = "create_product"
        /\ resp[q].status = 200
        /\ Len(products) = Len(SeededProducts) + 1
        /\ products[Len(products)].category_id = PuffsId

\* C21: create_product stamps on the product the name its category has
\* when the handler looks it up, inserts that document, and no step (a
\* rename of the category included) changes a stored product.
C21_CategoryNameStamped ==
    [][/\ Len(products') >= Len(products)
       /\ \A i \in 1..Len(products) : products'[i] = products[i]
       /\ \A p \in Procs :
              /\ (pc[p] = "product_find" /\ pc'[p] = "product_insert")
                 => /\ loc'[p].product.category_id = req[p].category_id
                    /\ \E i \in 1..Len(categories) :
                           /\ categories[i].id = req[p].category_id
                           /\ categories[i].name = loc'[p].product.category_name
              /\ (pc[p] = "product_insert" /\ pc'[p] = "done")
                 => products' = Append(products, loc[p].product)]_vars

\* A product created in the category Puffs Modernos keeps that name after
\* the category was renamed.
C21_Witness ==
    \E i \in 1..Len(products), j \in 1..Len(categories) :
        /\ i > Len(SeededProducts)
        /\ products[i].category_id = PuffsId
        /\ products[i].category_name = Puff.category_name
        /\ categories[j].id = PuffsId
        /\ categories[j].name = PuffsNewName

\* The finished, successful register requests with that email and password.
Registered(email, password) ==
    {p \in Procs : /\ pc[p] = "done"
                   /\ req[p].op = "register"
                   /\ resp[p].status = 200
                   /\ req[p].email = email
                   /\ req[p].password = password}

\* C22: a login with the email and password of a register that has
\* succeeded ends with 200 and a token, handed out to the client, whose
\* subject is the id that register returned; a login whose email matches no
\* user, or whose password does not verify against the hash of the stored
\* user with that email, ends with 401 and no token; a protected request
\* with a token returned by register or login resolves to the user whose id
\* is the subject.
C22_RegisterThenLogin ==
    [][\A q \in Procs :
          /\ (pc[q] = "login_find" /\ pc'[q] = "done")
             => /\ \A p \in Registered(req[q].email, req[q].password) :
                       /\ resp'[q].status = 200
                       /\ resp'[q].access_token.sub = resp[p].user.id
                       /\ resp'[q].user = resp[p].user
                       /\ resp'[q].access_token \in {g.tok : g \in issued'}
                /\ (\A i \in 1..Len(users) :
                        users[i].email = req[q].email
                        => ~VerifyPassword(req[q].password, users[i].password))
                   => /\ resp'[q].status = 401
                      /\ resp'[q].access_token = NoToken
                      /\ issued' = issued
          /\ (pc[q] = "auth" /\ pc'[q] # "auth" /\ req[q].tok \in {g.tok : g \in issued})
             => /\ cur'[q] # NoUser
                /\ cur'[q].id = req[q].tok.sub]_vars

\* C23: the user in the response of register and of login, and the user
\* get_current_user hands to a route, have the fields of the User model
\* only: no "password" field, hence neither the hash nor the plaintext.
C23_NoPasswordInPayload ==
    \A p \in Procs :
        /\ resp[p].status = 200 /\ req[p].op \in {"register", "login"}
           => /\ "password" \notin DOMAIN resp[p].user
              /\ DOMAIN resp[p].user \subseteq UserFields
              /\ "password" \notin DOMAIN resp[p]
        /\ cur[p] # NoUser
           => /\ "password" \notin DOMAIN cur[p]
              /\ DOMAIN cur[p] \subseteq UserFields

\* A registration and a login of the new user have returned their user,
\* whose stored record carries the hash of the password.
C23_Witness ==
    \E p, q \in Procs :
        /\ pc[p] = "done" /\ req[p].op = "register" /\ resp[p].status = 200
        /\ pc[q] = "done" /\ req[q].op = "login" /\ resp[q].status = 200
        /\ resp[q].user = resp[p].user
        /\ \E i \in 1..Len(users) :
               /\ users[i].id = resp[p].user.id
               /\ users[i].password = GetPasswordHash(req[p].password, users[i].id)

\* C24: no step changes a stored user record; the records a register adds
\* have is_admin false, also when the body carried "is_admin": true; the
\* records with is_admin true are the ones the seeding inserted.
C24_NoPromotion ==
    [][/\ Len(users') >= Len(users)
       /\ \A i \in 1..Len(users) : users'[i] = users[i]
       /\ \A i \in (Len(users) + 1)..Len(users') :
              /\ ~users'[i].is_admin
              /\ \E p \in Procs : pc[p] = "reg_insert" /\ pc'[p] = "done"
       /\ \A i \in 1..Len(users') :
              users'[i].is_admin => (i <= Len(SeededUsers) /\ users'[i].email = AdminEmail)]_vars

\* A register whose body asked for is_admin has succeeded; the user is
\* stored, and resolved by get_current_user, with is_admin false.
C24_Witness ==
    \E p, q \in Procs :
        /\ pc[p] = "done" /\ req[p].op = "register" /\ req[p].is_admin
        /\ resp[p].status = 200
        /\ ~resp[p].user.is_admin
        /\ \E i \in 1..Len(users) :
               users[i].id = resp[p].user.id /\ ~users[i].is_admin
        /\ cur[q].id = resp[p].user.id
        /\ ~cur[q].is_admin

\* C25: after any number of process starts exactly one user record has
\* the admin email.
C25_OneAdminRecord ==
    Cardinality(Matches(users, "email", AdminEmail)) = 1

\* C26: a cart id returned to a caller is still the id of that user's
\* stored cart, whatever the other requests of the user have done since.
C26_CartIdStable ==
    \A p \in Procs :
        (pc[p] = "done" /\ resp[p].status = 200 /\ resp[p].cart # NoCart)
            => Stored(carts, cur[p].id).id = resp[p].cart.id

====
